---- MODULE Spec2Model ----
(***************************************************************************)
(* A model of rtlsdr_scanner/file.py: the Backups manager (private scratch *)
(* file, drop-on-busy background save, catalog of other scratch files) and *)
(* the versioned codec (open_plot / save_plot).                            *)
(*                                                                         *)
(* The specifications share the variables:                                 *)
(*   Spec        one constructed Backups object whose save() is called by  *)
(*               several threads, its save workers and close();            *)
(*   SpecCatalog a Backups object from its construction over a backup root *)
(*               holding scratch files of earlier runs: __init__, save()   *)
(*               from one thread, load(), delete(), close();               *)
(*   SpecCodec   save_plot and open_plot over bounded session files;       *)
(*   SpecShared  a Backups object and the Backups objects of other         *)
(*               processes on the same backup root;                        *)
(*   SpecCrash   a process that saves, is killed and is started again.     *)
(***************************************************************************)
EXTENDS Integers, Sequences, FiniteSets, TLC

VARIABLES
    pcMgr,      \* "new" before Backups.__init__, "running", "closed" after close()
    disk,       \* the backup root: scratch file name -> content (a sequence of chunks)
    tempFile,   \* self.tempFile, 0 before construction
    tempFd,     \* TRUE while the descriptor self.tempFd of mkstemp is open
    thread,     \* self.thread: 0 for None, else the id of a Thread object
    backups,    \* self.backups: the catalog, a sequence of [name, size]
    workers,    \* the Thread objects made by save(): id -> [data, pc, att]
    callers,    \* the threads that call save(): caller -> [pc, data]
    nSaves,     \* save() calls made so far (the k-th call passes snapshot k)
    lastGet,    \* the last __get: the zero-byte files it found, those it failed to remove
    ret,        \* how the last load(index) or delete(index) ended
    peers,      \* the other processes of the backup root: scratch file -> state
    plotFile,   \* the session file open_plot reads and save_plot writes
    plotSess,   \* the session last passed to save_plot (NoSess if none)
    plotRes     \* what the last open_plot returned or raised

backupVars == <<pcMgr, disk, tempFile, tempFd, thread, backups, workers,
                callers, nSaves, lastGet, ret, peers>>
codecVars == <<plotFile, plotSess, plotRes>>
vars == <<pcMgr, disk, tempFile, tempFd, thread, backups, workers,
          callers, nSaves, lastGet, ret, peers, plotFile, plotSess, plotRes>>

----------------------------------------------------------------------------
(* Bounds *)

\* scratch file names that exist under the backup root
MaxFiles == 4
\* threads that call Backups.save on one manager (Spec)
NumCallers == 2
\* save() calls in one run of Spec
MaxSaves == 2
\* save() calls in one run of SpecCatalog
MaxSeqSaves == 1

Names == 1..MaxFiles
Callers == 1..NumCallers

----------------------------------------------------------------------------
(* Files of the backup root.  A content is a sequence of chunks; a chunk   *)
(* is the number of the snapshot it belongs to, or -1 for a hole left by a *)
(* write past the end of the file.  A pickled snapshot d is <<d, d>>: the  *)
(* part the buffered writer flushes during dump() and the part it flushes  *)
(* on close().  Snapshot 0 is the data of an earlier run.                  *)

Pickled(d) == <<d, d>>

\* a write of chunk c at chunk offset i of content s
WriteAt(s, i, c) ==
    [k \in 1..(IF Len(s) > i THEN Len(s) ELSE i) |->
        IF k = i THEN c ELSE IF k <= Len(s) THEN s[k] ELSE -1]

\* os.remove(f): the directory entry is gone
RemoveFile(d, f) == [g \in (DOMAIN d) \ {f} |-> d[g]]

\* open(f, 'wb'): the file is created, or truncated to zero bytes
TruncFile(d, f) == [g \in (DOMAIN d) \cup {f} |-> IF g = f THEN <<>> ELSE d[g]]

\* pickle.load of a whole file: the snapshot, or the exception raised
PickleLoad(s) ==
    IF Len(s) = 0 THEN [exc |-> "EOFError", data |-> -1]
    ELSE IF Len(s) = 2 /\ s[1] = s[2] /\ s[1] >= 0
         THEN [exc |-> "none", data |-> s[1]]
         ELSE [exc |-> "UnpicklingError", data |-> -1]

NoCall == [op |-> "none", exc |-> "none", data |-> -1]
NoGet == [zero |-> {}, failed |-> {}]

----------------------------------------------------------------------------
(* Backups.__get *)

RECURSIVE SortDesc(_)
\* files.sort(); files.reverse() on tuples that start with the file name
SortDesc(S) ==
    IF S = {} THEN <<>>
    ELSE LET m == CHOOSE x \in S : \A y \in S : y <= x
         IN  <<m>> \o SortDesc(S \ {m})

\* glob of PREFIX* without self.tempFile
GlobOthers(d, own) == (DOMAIN d) \ {own}

\* A variant of __get that lists the files but sweeps none of the empty ones
\* away; C8_CatalogHygiene tells it from Get.
GetNoSweep(d, own, fail) ==
    LET sized == {b \in GlobOthers(d, own) : Len(d[b]) # 0}
        order == SortDesc(sized)
    IN  [files |-> [k \in 1..Len(order) |->
                        [name |-> order[k], size |-> Len(d[order[k]])]],
         disk  |-> d]

\* the catalog __get returns and the disk it leaves; fail is the set of
\* zero-byte files whose os.remove raises OSError (ignored by __get)
Get(d, own, fail) ==
    LET others == GlobOthers(d, own)
        sized  == {b \in others : Len(d[b]) # 0}
        empty  == others \ sized
        order  == SortDesc(sized)
    IN  [files |-> [k \in 1..Len(order) |->
                        [name |-> order[k], size |-> Len(d[order[k]])]],
         disk  |-> [g \in (DOMAIN d) \ (empty \ fail) |-> d[g]]]

ZeroByteOthers(d, own) == {b \in GlobOthers(d, own) : Len(d[b]) = 0}

----------------------------------------------------------------------------
(* Backups.__init__ *)

BackupsInit ==
    /\ pcMgr = "new"
    /\ \E n \in Names \ DOMAIN disk :
         LET made == TruncFile(disk, n)          \* tempfile.mkstemp
         IN  \E fail \in SUBSET ZeroByteOthers(made, n) :
               LET g == Get(made, n, fail)
               IN  /\ tempFile' = n
                   /\ disk' = g.disk
                   /\ backups' = g.files
                   /\ lastGet' = [zero |-> ZeroByteOthers(made, n), failed |-> fail]
    /\ tempFd' = TRUE
    /\ thread' = 0
    /\ pcMgr' = "running"
    /\ UNCHANGED <<workers, callers, nSaves, ret>>
    /\ UNCHANGED <<peers, codecVars>>

----------------------------------------------------------------------------
(* Backups.save, one shared access of self.thread per step *)

Idle == [pc |-> "idle", data |-> 0]

\* line 250: the read of self.thread; the call returns at once if it is set
SaveCheck(c) ==
    /\ pcMgr = "running"
    /\ callers[c].pc = "idle"
    /\ nSaves < MaxSaves
    /\ nSaves' = nSaves + 1
    /\ callers' = [callers EXCEPT ![c] =
                     IF thread = 0 THEN [pc |-> "assign", data |-> nSaves + 1]
                     ELSE Idle]
    /\ UNCHANGED <<pcMgr, disk, tempFile, tempFd, thread, backups, workers,
                   lastGet, ret>>
    /\ UNCHANGED <<peers, codecVars>>

\* lines 251-253: a Thread object is made and stored in self.thread
SaveAssign(c) ==
    /\ callers[c].pc = "assign"
    /\ LET w == Len(workers) + 1
       IN  /\ workers' = Append(workers,
                            [data |-> callers[c].data, pc |-> "created", att |-> FALSE])
           /\ thread' = w
    /\ callers' = [callers EXCEPT ![c].pc = "start"]
    /\ UNCHANGED <<pcMgr, disk, tempFile, tempFd, backups, nSaves,
                   lastGet, ret>>
    /\ UNCHANGED <<peers, codecVars>>

\* line 254: self.thread.start() reads self.thread again; None has no start
\* (AttributeError) and a Thread starts only once (RuntimeError)
SaveStart(c) ==
    /\ callers[c].pc = "start"
    /\ callers' = [callers EXCEPT ![c] = Idle]
    /\ workers' = IF thread # 0 /\ workers[thread].pc = "created"
                  THEN [workers EXCEPT ![thread].pc = "started"]
                  ELSE workers
    /\ UNCHANGED <<pcMgr, disk, tempFile, tempFd, thread, backups, nSaves,
                   lastGet, ret>>
    /\ UNCHANGED <<peers, codecVars>>

----------------------------------------------------------------------------
(* Backups.__save, the body of a save worker *)

\* line 241: open(self.tempFile, 'wb')
WorkerOpen(w) ==
    /\ workers[w].pc = "started"
    /\ disk' = TruncFile(disk, tempFile)
    /\ workers' = [workers EXCEPT ![w].pc = "opened", ![w].att = TRUE]
    /\ UNCHANGED <<pcMgr, tempFile, tempFd, thread, backups, callers, nSaves,
                   lastGet, ret>>
    /\ UNCHANGED <<peers, codecVars>>

\* the write of handle h's chunk i: lost if the file was unlinked since
HandleWrite(d, w, i) ==
    IF workers[w].att THEN [d EXCEPT ![tempFile] = WriteAt(@, i, workers[w].data)]
    ELSE d

\* line 242: dump(data, handle); the buffered writer flushes the first part
WorkerDump(w) ==
    /\ workers[w].pc = "opened"
    /\ disk' = HandleWrite(disk, w, 1)
    /\ workers' = [workers EXCEPT ![w].pc = "dumped"]
    /\ UNCHANGED <<pcMgr, tempFile, tempFd, thread, backups, callers, nSaves,
                   lastGet, ret>>
    /\ UNCHANGED <<peers, codecVars>>

\* line 243: handle.close() flushes the rest and closes the handle
WorkerClose(w) ==
    /\ workers[w].pc = "dumped"
    /\ disk' = HandleWrite(disk, w, 2)
    /\ workers' = [workers EXCEPT ![w].pc = "closed", ![w].att = FALSE]
    /\ UNCHANGED <<pcMgr, tempFile, tempFd, thread, backups, callers, nSaves,
                   lastGet, ret>>
    /\ UNCHANGED <<peers, codecVars>>

\* line 241 raises (OSError: no permission, no descriptor left, no space for
\* a new file): the exception ends the thread; line 244 is not reached
WorkerOpenFails(w) ==
    /\ workers[w].pc = "started"
    /\ workers' = [workers EXCEPT ![w].pc = "failedOpen"]
    /\ UNCHANGED <<pcMgr, disk, tempFile, tempFd, thread, backups, callers,
                   nSaves, lastGet, ret>>
    /\ UNCHANGED <<peers, codecVars>>

\* line 242 raises (PicklingError, OSError on a full disk): the exception
\* ends the thread; lines 243-244 are not reached.  The handle is closed
\* when the interpreter collects it, and what it had buffered of the first
\* part is written then or was never produced
WorkerDumpFails(w) ==
    /\ workers[w].pc = "opened"
    /\ \E flushed \in BOOLEAN :
         disk' = IF flushed THEN HandleWrite(disk, w, 1) ELSE disk
    /\ workers' = [workers EXCEPT ![w].pc = "failedDump", ![w].att = FALSE]
    /\ UNCHANGED <<pcMgr, tempFile, tempFd, thread, backups, callers, nSaves,
                   lastGet, ret>>
    /\ UNCHANGED <<peers, codecVars>>

\* line 244: self.thread = None
WorkerReset(w) ==
    /\ workers[w].pc = "closed"
    /\ thread' = 0
    /\ workers' = [workers EXCEPT ![w].pc = "done"]
    /\ UNCHANGED <<pcMgr, disk, tempFile, tempFd, backups, callers, nSaves,
                   lastGet, ret>>
    /\ UNCHANGED <<peers, codecVars>>

----------------------------------------------------------------------------
(* Backups.load, Backups.delete, Backups.close *)

\* A variant of the catalog lookup that counts from the end of the catalog;
\* C10_DeleteFrame tells it from Chosen.
ChosenFromEnd(index) == backups[Len(backups) - index].name

\* line 257 and line 265: the file of catalog entry index (counted from 0)
Chosen(index) == backups[index + 1].name

\* load(index): the file of the entry is opened and unpickled
Load(i) ==
    /\ pcMgr = "running"
    /\ i \in 0..(Len(backups) - 1)
    /\ LET backup == Chosen(i)
           got == IF backup \in DOMAIN disk THEN PickleLoad(disk[backup])
                  ELSE [exc |-> "FileNotFoundError", data |-> -1]
       IN  ret' = [op |-> "load", exc |-> got.exc, data |-> got.data]
    /\ UNCHANGED <<pcMgr, disk, tempFile, tempFd, thread, backups, workers,
                   callers, nSaves, lastGet>>
    /\ UNCHANGED <<peers, codecVars>>

\* delete(index): os.remove of the entry's file, then the catalog is rebuilt
Delete(i) ==
    /\ pcMgr = "running"
    /\ i \in 0..(Len(backups) - 1)
    /\ LET backup == Chosen(i)
       IN  /\ backup \in DOMAIN disk
           /\ LET removed == RemoveFile(disk, backup)
              IN  \E fail \in SUBSET ZeroByteOthers(removed, tempFile) :
                    LET g == Get(removed, tempFile, fail)
                    IN  /\ disk' = g.disk
                        /\ backups' = g.files
                        /\ lastGet' = [zero |-> ZeroByteOthers(removed, tempFile),
                                       failed |-> fail]
    /\ ret' = [op |-> "delete", exc |-> "none", data |-> -1]
    /\ UNCHANGED <<pcMgr, tempFile, tempFd, thread, workers, callers, nSaves>>
    /\ UNCHANGED <<peers, codecVars>>

\* delete(index) when os.remove (line 266) raises OSError: nothing handles
\* it, the exception reaches the caller and line 267 is not run
DeleteRaises(i) ==
    /\ pcMgr = "running"
    /\ i \in 0..(Len(backups) - 1)
    /\ ret' = [op |-> "delete", exc |-> "OSError", data |-> -1]
    /\ UNCHANGED <<pcMgr, disk, tempFile, tempFd, thread, backups, workers,
                   callers, nSaves, lastGet>>
    /\ UNCHANGED <<peers, codecVars>>

\* close(): os.close(self.tempFd); os.remove(self.tempFile).  Handles that
\* workers hold on the file keep the unlinked file, not the name.
Close ==
    /\ pcMgr = "running"
    /\ tempFile \in DOMAIN disk
    /\ tempFd' = FALSE
    /\ disk' = RemoveFile(disk, tempFile)
    /\ workers' = [w \in DOMAIN workers |-> [workers[w] EXCEPT !.att = FALSE]]
    /\ pcMgr' = "closed"
    /\ UNCHANGED <<tempFile, thread, backups, callers, nSaves, lastGet, ret>>
    /\ UNCHANGED <<peers, codecVars>>

----------------------------------------------------------------------------
(* Values of the codec.  A number stands for a Python number; None is -1   *)
(* and the empty description '' is 0.  A mapping (dict, OrderedDict) is a  *)
(* sequence of <<key, value>> pairs in insertion order with distinct keys. *)
(* The text of a JSON object key is <<n, form>>: form 0 is repr(n), form 1 *)
(* another spelling of the same number ("1" for 1.0), form 2 is text that  *)
(* float() rejects.                                                        *)

\* File.HEADER, line 115
HEADER == "RTLSDR Scanner"
\* File.VERSION
VERSION == 9
\* open_plot's defaults, lines 288-299
DefaultDwell == 131
DefaultNfft == 1024
DefaultTuner == 0
PyNone == -1
EmptyDesc == 0

\* a JSON or pickled value stored under a frequency: a number, or an object
Num(p) == [isObj |-> FALSE, num |-> p, obj |-> <<>>]
Obj(m) == [isObj |-> TRUE, num |-> 0, obj |-> m]

\* float(text) succeeds
Parses(key) == key[2] # 2
\* float(text)
ParseFloat(key) == key[1]
\* A variant of the key conversion that keeps less precision than repr, so
\* that two numbers share a text; C6_RoundTrip tells it from ReprKey.
ReprKeyShort(n) == <<(n + 1) \div 2, 0>>

\* the key json.dumps writes for the number n
ReprKey(n) == <<n, 0>>

\* d[k] = v on a dict: the value is replaced in place, or the pair appended
DictSet(m, k, v) ==
    IF \E i \in DOMAIN m : m[i][1] = k
    THEN [i \in DOMAIN m |-> IF m[i][1] = k THEN <<k, v>> ELSE m[i]]
    ELSE Append(m, <<k, v>>)

\* a dict as the set of its items (dict equality ignores order)
Items(m) == {m[i] : i \in DOMAIN m}
NestedItems(m) == {<<m[i][1], Items(m[i][2])>> : i \in DOMAIN m}

RECURSIVE SortByKey(_)
\* the pairs of a mapping in ascending key order
SortByKey(m) ==
    IF m = <<>> THEN <<>>
    ELSE LET i == CHOOSE i \in DOMAIN m : \A j \in DOMAIN m : m[i][1] <= m[j][1]
         IN  <<m[i]>> \o SortByKey([k \in 1..(Len(m) - 1) |->
                                       IF k < i THEN m[k] ELSE m[k + 1]])

\* sort_spectrum: sweeps by timestamp, each sweep by frequency
sort_spectrum(spectrum) ==
    SortByKey([i \in DOMAIN spectrum |->
                  <<spectrum[i][1], SortByKey(spectrum[i][2])>>])

----------------------------------------------------------------------------
(* The loops of open_plot over the items of a JSON object; each returns    *)
(* the exception that ends it ("none" if it completes) and the mapping     *)

RECURSIVE FlatLoop(_, _, _)
\* lines 348-349: spectrum[1][float(f)] = p
FlatLoop(items, i, acc) ==
    IF i > Len(items) THEN [exc |-> "none", m |-> acc]
    ELSE IF ~Parses(items[i][1]) THEN [exc |-> "ValueError", m |-> acc]
    ELSE FlatLoop(items, i + 1, DictSet(acc, ParseFloat(items[i][1]), items[i][2]))

RECURSIVE InnerLoop(_, _, _)
\* lines 353-354: spectrum[float(t)][float(f)] = p
InnerLoop(items, i, acc) ==
    IF i > Len(items) THEN [exc |-> "none", m |-> acc]
    ELSE IF ~Parses(items[i][1]) THEN [exc |-> "ValueError", m |-> acc]
    ELSE InnerLoop(items, i + 1,
                   DictSet(acc, ParseFloat(items[i][1]), Num(items[i][2])))

RECURSIVE NestedLoop(_, _, _)
\* lines 351-354: spectrum[float(t)] = {}, then the sweep's items
NestedLoop(items, i, acc) ==
    IF i > Len(items) THEN [exc |-> "none", m |-> acc]
    ELSE IF ~Parses(items[i][1]) THEN [exc |-> "ValueError", m |-> acc]
    ELSE IF ~items[i][2].isObj THEN [exc |-> "AttributeError", m |-> acc]
    ELSE LET t == ParseFloat(items[i][1])
             sweep == InnerLoop(items[i][2].obj, 1, <<>>)
         IN  IF sweep.exc # "none" THEN [exc |-> sweep.exc, m |-> acc]
             ELSE NestedLoop(items, i + 1, DictSet(acc, t, sweep.m))

RECURSIVE LocationLoop(_, _, _)
\* lines 359-360: location[float(t)] = l
LocationLoop(items, i, acc) ==
    IF i > Len(items) THEN [exc |-> "none", m |-> acc]
    ELSE IF ~Parses(items[i][1]) THEN [exc |-> "ValueError", m |-> acc]
    ELSE LocationLoop(items, i + 1, DictSet(acc, ParseFloat(items[i][1]), items[i][2]))

----------------------------------------------------------------------------
(* Session files.  A file is absent, a pickle stream (the legacy layout    *)
(* and everything that is not JSON text) or JSON text.                     *)
(*   bin: n records can be unpickled one after the other (header marker,   *)
(*        version, start, stop, flat mapping); the load after them raises  *)
(*        EOFError ("eof"), UnpicklingError ("junk") or another exception  *)
(*        of the unpickler ("other": ValueError, ImportError, ...).        *)
(*   doc: what json.loads returns: top is "invalid" for text that is not   *)
(*        JSON, else the type of the value; an array has len elements,     *)
(*        header is data[0] and second the type of data[1]; of the object  *)
(*        data[1], keys are its keys, vtype and version the type and the   *)
(*        value of 'Version', vals the values of the scalar fields,        *)
(*        specKind and spec the type and the items of 'Spectrum', locKind  *)
(*        and loc those of 'Location'.                                     *)

FieldNames ==
    {"Version", "Start", "Stop", "Dwell", "Nfft", "Device", "Gain", "LO",
     "Calibration", "Tuner", "Time", "Latitude", "Longitude", "Description",
     "Spectrum", "Location"}

ScalarFields == FieldNames \ {"Version", "Spectrum", "Location"}

NoVals == [k \in ScalarFields |-> PyNone]

\* the value the documents of the model store under a scalar field
FieldVal(name, salt) ==
    salt + CASE name = "Start" -> 10 [] name = "Stop" -> 20
             [] name = "Dwell" -> 30 [] name = "Nfft" -> 40
             [] name = "Device" -> 50 [] name = "Gain" -> 60
             [] name = "LO" -> 70 [] name = "Calibration" -> 80
             [] name = "Tuner" -> 90 [] name = "Time" -> 100
             [] name = "Latitude" -> 110 [] name = "Longitude" -> 120
             [] name = "Description" -> 130

NoDoc ==
    [top |-> "invalid", len |-> 0, header |-> "", second |-> "scalar",
     keys |-> {}, vtype |-> "null", version |-> 0, vals |-> NoVals,
     specKind |-> "dict", spec |-> <<>>, locKind |-> "dict", loc |-> <<>>]

NoBin ==
    [n |-> 0, end |-> "junk", header |-> "", version |-> 0, start |-> 0,
     stop |-> 0, spectrum |-> <<>>]

AbsentFile == [fmt |-> "absent", bin |-> NoBin, doc |-> NoDoc]
TextFile(doc) == [fmt |-> "text", bin |-> NoBin, doc |-> doc]
BinFile(bin) == [fmt |-> "pickle", bin |-> bin, doc |-> NoDoc]

NoInfo ==
    [start |-> PyNone, stop |-> PyNone, dwell |-> PyNone, nfft |-> PyNone,
     name |-> PyNone, gain |-> PyNone, lo |-> PyNone, calibration |-> PyNone,
     tuner |-> PyNone, time |-> PyNone, lat |-> PyNone, lon |-> PyNone,
     desc |-> PyNone]

\* what open_plot hands back: out is "notfound" or "corrupt" for the two
\* (None, None, None) returns, "ok" for a session, "raise" when exception exc
\* leaves open_plot; header is the local of that name when open_plot ends,
\* path the decode paths entered and handle the state of the file handle
PlotResult(out, exc, header, path, handle, info, spectrum, location) ==
    [out |-> out, exc |-> exc, header |-> header, path |-> path,
     handle |-> handle, info |-> info, spectrum |-> spectrum,
     location |-> location]

Unread == PlotResult("unset", "none", HEADER, "none", "none", NoInfo, <<>>, <<>>)

----------------------------------------------------------------------------
(* open_plot, the JSON path (lines 325-365) *)

\* the first exception of lines 326-360 on document doc, "none" if none
JsonExc(doc) ==
    LET v == doc.version
        miss(k) == k \notin doc.keys
    IN  IF doc.top = "invalid" THEN "ValueError"            \* json.loads
        ELSE IF doc.top = "scalar" THEN "TypeError"         \* data[0]
        ELSE IF doc.top = "object" THEN "KeyError"          \* data[0]
        ELSE IF doc.len < 2 THEN "IndexError"               \* data[0], data[1]
        ELSE IF doc.top = "string" THEN "TypeError"         \* 'x'['Version']
        ELSE IF doc.second # "object" THEN "TypeError"      \* data[1]['Version']
        ELSE IF miss("Version") \/ miss("Start") \/ miss("Stop") THEN "KeyError"
        ELSE IF doc.vtype # "int" THEN "TypeError"          \* version > 1
        ELSE IF v > 1 /\ (miss("Dwell") \/ miss("Nfft")) THEN "KeyError"
        ELSE IF v > 2 /\ (miss("Device") \/ miss("Gain") \/ miss("LO")
                            \/ miss("Calibration")) THEN "KeyError"
        ELSE IF v > 4 /\ miss("Tuner") THEN "KeyError"
        ELSE IF v > 5 /\ (miss("Time") \/ miss("Latitude") \/ miss("Longitude"))
             THEN "KeyError"
        ELSE IF miss("Spectrum") THEN "KeyError"
        ELSE IF doc.specKind # "dict" THEN "AttributeError"  \* .items()
        ELSE IF v < 7 /\ FlatLoop(doc.spec, 1, <<>>).exc # "none"
             THEN FlatLoop(doc.spec, 1, <<>>).exc
        ELSE IF ~(v < 7) /\ NestedLoop(doc.spec, 1, <<>>).exc # "none"
             THEN NestedLoop(doc.spec, 1, <<>>).exc
        ELSE IF v > 7 /\ miss("Description") THEN "KeyError"
        ELSE IF v > 8 /\ miss("Location") THEN "KeyError"
        ELSE IF v > 8 /\ doc.locKind # "dict" THEN "AttributeError"
        ELSE IF v > 8 /\ LocationLoop(doc.loc, 1, <<>>).exc # "none"
             THEN LocationLoop(doc.loc, 1, <<>>).exc
        ELSE "none"

\* the local header after the JSON path: data[0] once line 328 has run
JsonHeader(doc) ==
    IF doc.top \in {"array", "string"} /\ doc.len >= 1 THEN doc.header ELSE HEADER

\* A variant of the field migration that reads Tuner from version 4 on, one
\* version early; C5_Migration tells it from JsonInfo.
JsonInfoEarlyTuner(doc) ==
    LET v == doc.version
        val(k) == doc.vals[k]
    IN  [start |-> val("Start"), stop |-> val("Stop"),
         dwell |-> IF v > 1 THEN val("Dwell") ELSE DefaultDwell,
         nfft |-> IF v > 1 THEN val("Nfft") ELSE DefaultNfft,
         name |-> IF v > 2 THEN val("Device") ELSE PyNone,
         gain |-> IF v > 2 THEN val("Gain") ELSE PyNone,
         lo |-> IF v > 2 THEN val("LO") ELSE PyNone,
         calibration |-> IF v > 2 THEN val("Calibration") ELSE PyNone,
         tuner |-> IF v > 3 THEN val("Tuner") ELSE DefaultTuner,
         time |-> IF v > 5 THEN val("Time") ELSE PyNone,
         lat |-> IF v > 5 THEN val("Latitude") ELSE PyNone,
         lon |-> IF v > 5 THEN val("Longitude") ELSE PyNone,
         desc |-> IF v > 7 THEN val("Description") ELSE EmptyDesc]

\* the locals of open_plot after lines 329-360 when nothing was raised
JsonInfo(doc) ==
    LET v == doc.version
        val(k) == doc.vals[k]
    IN  [start |-> val("Start"), stop |-> val("Stop"),
         dwell |-> IF v > 1 THEN val("Dwell") ELSE DefaultDwell,
         nfft |-> IF v > 1 THEN val("Nfft") ELSE DefaultNfft,
         name |-> IF v > 2 THEN val("Device") ELSE PyNone,
         gain |-> IF v > 2 THEN val("Gain") ELSE PyNone,
         lo |-> IF v > 2 THEN val("LO") ELSE PyNone,
         calibration |-> IF v > 2 THEN val("Calibration") ELSE PyNone,
         tuner |-> IF v > 4 THEN val("Tuner") ELSE DefaultTuner,
         time |-> IF v > 5 THEN val("Time") ELSE PyNone,
         lat |-> IF v > 5 THEN val("Latitude") ELSE PyNone,
         lon |-> IF v > 5 THEN val("Longitude") ELSE PyNone,
         desc |-> IF v > 7 THEN val("Description") ELSE EmptyDesc]

JsonSpectrum(doc) ==
    IF doc.version < 7 THEN <<<<1, FlatLoop(doc.spec, 1, <<>>).m>>>>
    ELSE NestedLoop(doc.spec, 1, <<>>).m

JsonLocation(doc) ==
    IF doc.version > 8 THEN LocationLoop(doc.loc, 1, <<>>).m ELSE <<>>

----------------------------------------------------------------------------
(* open_plot (lines 285-389) *)

\* lines 369-389: the header check, then the session
Finish(error, header, path, info, spectrum, location) ==
    IF error \/ header # HEADER
    THEN PlotResult("corrupt", "none", header, path, "closed", NoInfo, <<>>, <<>>)
    ELSE PlotResult("ok", "none", header, path, "closed", info,
                    sort_spectrum(spectrum), location)

\* an exception no except clause names leaves open_plot before line 367
Escapes(exc, header, path) ==
    PlotResult("raise", exc, header, path, "open", NoInfo, <<>>, <<>>)

\* lines 325-365
JsonDecode(doc, path) ==
    LET exc == JsonExc(doc)
        header == JsonHeader(doc)
    IN  IF exc \in {"ValueError", "KeyError"}
        THEN Finish(TRUE, header, path, NoInfo, <<>>, <<>>)
        ELSE IF exc # "none" THEN Escapes(exc, header, path)
        ELSE Finish(FALSE, header, path, JsonInfo(doc), JsonSpectrum(doc),
                    JsonLocation(doc))

\* the exception of the k-th load(handle) on a pickle stream, "none" if the
\* stream holds a k-th record
LoadExc(bin, k) ==
    IF k <= bin.n THEN "none"
    ELSE CASE bin.end = "eof" -> "EOFError"
           [] bin.end = "junk" -> "UnpicklingError"
           [] OTHER -> "ValueError"

\* lines 316-323: the four loads after the header; of what they raise only
\* PickleError (with its subclass UnpicklingError) is caught
LegacyDecode(bin) ==
    LET exc == IF bin.n >= 5 THEN "none" ELSE LoadExc(bin, bin.n + 1)
        info == [NoInfo EXCEPT !.start = bin.start, !.stop = bin.stop,
                               !.dwell = DefaultDwell, !.nfft = DefaultNfft,
                               !.tuner = DefaultTuner, !.desc = EmptyDesc]
    IN  IF exc = "UnpicklingError"
        THEN Finish(TRUE, bin.header, "pickle", NoInfo, <<>>, <<>>)
        ELSE IF exc # "none" THEN Escapes(exc, bin.header, "pickle")
        ELSE Finish(FALSE, bin.header, "pickle", info,
                    <<<<1, bin.spectrum>>>>, <<>>)

\* what json.loads makes of the bytes of the file
AsJson(file) == IF file.fmt = "text" THEN file.doc ELSE NoDoc

\* the exception of the first load(handle), line 309
ProbeExc(file) ==
    IF file.fmt = "text" THEN "UnpicklingError" ELSE LoadExc(file.bin, 1)

\* A variant of open_plot without the os.path.exists test of lines 305-306:
\* the probe and the decode run on whatever the path gives;
\* C11_MissingFile tells it from open_plot.
OpenPlotNoExistsTest(file) ==
    LET exc == ProbeExc(file)
    IN  IF exc = "none" THEN LegacyDecode(file.bin)
        ELSE IF exc \in {"UnpicklingError", "EOFError"}
             THEN JsonDecode(AsJson(file), "pickle+json")
             ELSE Escapes(exc, HEADER, "pickle")

open_plot(file) ==
    IF file.fmt = "absent"
    THEN PlotResult("notfound", "none", HEADER, "none", "none", NoInfo, <<>>, <<>>)
    ELSE LET exc == ProbeExc(file)
         IN  IF exc = "none" THEN LegacyDecode(file.bin)
             ELSE IF exc \in {"UnpicklingError", "EOFError"}
                  THEN JsonDecode(AsJson(file), "pickle+json")
                  ELSE Escapes(exc, HEADER, "pickle")

----------------------------------------------------------------------------
(* save_plot (lines 392-412) *)

\* json.dumps of a mapping with number keys: each key becomes its repr
DumpKeys(m) == [i \in DOMAIN m |-> <<ReprKey(m[i][1]), m[i][2]>>]

\* a sweep as a JSON object
DumpSweep(sweep) == Obj([i \in DOMAIN sweep |-> <<ReprKey(sweep[i][1]), sweep[i][2].num>>])

DumpSpectrum(spectrum) ==
    [i \in DOMAIN spectrum |-> <<ReprKey(spectrum[i][1]), DumpSweep(spectrum[i][2])>>]

\* the document of lines 393-408; every scalar is stored under its field
save_plot(sess) ==
    TextFile([top |-> "array", len |-> 2, header |-> HEADER, second |-> "object",
              keys |-> FieldNames, vtype |-> "int", version |-> VERSION,
              vals |-> [k \in ScalarFields |->
                         CASE k = "Start" -> sess.info.start
                           [] k = "Stop" -> sess.info.stop
                           [] k = "Dwell" -> sess.info.dwell
                           [] k = "Nfft" -> sess.info.nfft
                           [] k = "Device" -> sess.info.name
                           [] k = "Gain" -> sess.info.gain
                           [] k = "LO" -> sess.info.lo
                           [] k = "Calibration" -> sess.info.calibration
                           [] k = "Tuner" -> sess.info.tuner
                           [] k = "Time" -> sess.info.time
                           [] k = "Latitude" -> sess.info.lat
                           [] k = "Longitude" -> sess.info.lon
                           [] k = "Description" -> sess.info.desc],
              specKind |-> "dict",
              spec |-> DumpSpectrum(sess.spectrum),
              locKind |-> "dict", loc |-> DumpKeys(sess.location)])

----------------------------------------------------------------------------
(* Codec state while the Backups specifications run *)

NoSess == [set |-> FALSE, info |-> NoInfo, spectrum |-> <<>>, location |-> <<>>]

CodecIdle ==
    /\ plotFile = AbsentFile
    /\ plotSess = NoSess
    /\ plotRes = Unread

----------------------------------------------------------------------------
(* Spec: one constructed manager, save() called from NumCallers threads *)

Init ==
    /\ pcMgr = "running"
    /\ tempFile = 1
    /\ disk = (1 :> <<>>)
    /\ tempFd = TRUE
    /\ thread = 0
    /\ backups = <<>>
    /\ workers = <<>>
    /\ callers = [c \in Callers |-> Idle]
    /\ nSaves = 0
    /\ lastGet = NoGet
    /\ ret = NoCall
    /\ peers = <<>>
    /\ CodecIdle

Next ==
    \/ \E c \in Callers : SaveCheck(c)
    \/ \E c \in Callers : SaveAssign(c)
    \/ \E c \in Callers : SaveStart(c)
    \/ \E w \in DOMAIN workers : WorkerOpen(w)
    \/ \E w \in DOMAIN workers : WorkerDump(w)
    \/ \E w \in DOMAIN workers : WorkerClose(w)
    \/ \E w \in DOMAIN workers : WorkerReset(w)
    \/ \E w \in DOMAIN workers : WorkerOpenFails(w)
    \/ \E w \in DOMAIN workers : WorkerDumpFails(w)
    \/ Close

Spec == Init /\ [][Next]_vars

----------------------------------------------------------------------------
(* SpecCatalog: a manager from its construction over a backup root that    *)
(* holds the scratch files of earlier runs; save() is called by one thread *)

\* what an earlier run can leave: nothing written, a cut write, a snapshot
LeftContents == {<<>>, <<0>>, Pickled(0)}

InitCatalog ==
    /\ pcMgr = "new"
    /\ tempFile = 0
    /\ \E S \in SUBSET Names :
         /\ Cardinality(S) < MaxFiles
         /\ disk \in [S -> LeftContents]
    /\ tempFd = FALSE
    /\ thread = 0
    /\ backups = <<>>
    /\ workers = <<>>
    /\ callers = [c \in Callers |-> Idle]
    /\ nSaves = 0
    /\ lastGet = NoGet
    /\ ret = NoCall
    /\ peers = <<>>
    /\ CodecIdle

NextCatalog ==
    \/ BackupsInit
    \/ (nSaves < MaxSeqSaves /\ SaveCheck(1))
    \/ SaveAssign(1)
    \/ SaveStart(1)
    \/ \E w \in DOMAIN workers : WorkerOpen(w)
    \/ \E w \in DOMAIN workers : WorkerDump(w)
    \/ \E w \in DOMAIN workers : WorkerClose(w)
    \/ \E w \in DOMAIN workers : WorkerReset(w)
    \/ \E i \in 0..MaxFiles : Load(i)
    \/ \E i \in 0..MaxFiles : Delete(i)
    \/ \E i \in 0..MaxFiles : DeleteRaises(i)
    \/ Close

SpecCatalog == InitCatalog /\ [][NextCatalog]_vars

----------------------------------------------------------------------------
(* SpecCodec: a session file is written by save_plot and read by open_plot *)

\* declared versions 0..MaxVersion
MaxVersion == 10
\* timestamps and frequencies 1..MaxKey
MaxKey == 2
\* the scalar fields of a document or session are FieldVal(k, 0..MaxSalt)
MaxSalt == 1

KeyTexts == {<<n, form>> : n \in 1..MaxKey, form \in 0..2}
GoodKeyTexts == {k \in KeyTexts : Parses(k)}

\* the mappings of at most two items over the keys K, key k with value V(k)
MapsOver(K, V) ==
    {<<>>} \cup {<<<<k, V[k]>>>> : k \in K}
           \cup {<<<<k[1], V[k[1]]>>, <<k[2], V[k[2]]>>>> :
                    k \in {kk \in K \X K : kk[1] # kk[2]}}

PowerOf(key) == Num(0 - (10 * key[1] + key[2]))
SweepOf(key) ==
    IF key[2] = 0 THEN Obj(<<<<ReprKey(2), -2>>, <<ReprKey(1), -1>>>>)
    ELSE IF key[2] = 1 THEN Obj(<<<<<<1, 1>>, -3>>, <<<<1, 0>>, -4>>>>)
    ELSE Obj(<<<<ReprKey(1), -5>>>>)
TripleOf(key) == 200 + 10 * key[1] + key[2]

\* 'Spectrum' objects: flat and nested, well-formed and not
FlatSpectra == MapsOver(KeyTexts, [k \in KeyTexts |-> PowerOf(k)])
NestedSpectra ==
    MapsOver(KeyTexts, [k \in KeyTexts |-> SweepOf(k)])
      \cup {<<<<ReprKey(1), Obj(<<<<<<1, 2>>, -6>>>>)>>>>,
            <<<<ReprKey(1), Num(-7)>>>>,
            <<<<ReprKey(2), SweepOf(<<2, 0>>)>>, <<ReprKey(1), Num(-7)>>>>}
GoodFlatSpectra == MapsOver(GoodKeyTexts, [k \in GoodKeyTexts |-> PowerOf(k)])
GoodNestedSpectra == MapsOver(GoodKeyTexts, [k \in GoodKeyTexts |-> SweepOf(k)])
Locations == MapsOver(KeyTexts, [k \in KeyTexts |-> TripleOf(k)])

DocVals == {[k \in ScalarFields |-> FieldVal(k, salt)] : salt \in 0..MaxSalt}
PlainVals == [k \in ScalarFields |-> FieldVal(k, 0)]

\* the fields open_plot reads from a document of version v (lines 329-360)
KeysAt(v) ==
    {"Version", "Start", "Stop", "Spectrum"}
      \cup (IF v > 1 THEN {"Dwell", "Nfft"} ELSE {})
      \cup (IF v > 2 THEN {"Device", "Gain", "LO", "Calibration"} ELSE {})
      \cup (IF v > 4 THEN {"Tuner"} ELSE {})
      \cup (IF v > 5 THEN {"Time", "Latitude", "Longitude"} ELSE {})
      \cup (IF v > 7 THEN {"Description"} ELSE {})
      \cup (IF v > 8 THEN {"Location"} ELSE {})

Headers == {HEADER, "Other"}

BaseDoc(header, v, vals) ==
    [top |-> "array", len |-> 2, header |-> header, second |-> "object",
     keys |-> FieldNames, vtype |-> "int", version |-> v, vals |-> vals,
     specKind |-> "dict",
     spec |-> IF v < 7 THEN <<<<ReprKey(2), Num(-2)>>, <<ReprKey(1), Num(-1)>>>>
              ELSE <<<<ReprKey(2), SweepOf(<<2, 0>>)>>, <<ReprKey(1), SweepOf(<<1, 1>>)>>>>,
     locKind |-> "dict", loc |-> <<<<ReprKey(1), TripleOf(<<1, 0>>)>>>>]

\* documents of every version with the fields of that version or with all
\* fields, and a spectrum of the shape of that version
SchemaDocsAt(v) ==
    {[BaseDoc(h, v, vals) EXCEPT !.keys = ks, !.spec = sp] :
        h \in Headers, vals \in DocVals, ks \in {FieldNames, KeysAt(v)},
        sp \in (IF v < 7 THEN GoodFlatSpectra ELSE GoodNestedSpectra)}
SchemaDocs == UNION {SchemaDocsAt(v) : v \in 0..MaxVersion}

\* documents that lack one field
LackingDocs ==
    {[BaseDoc(h, v, PlainVals) EXCEPT !.keys = FieldNames \ {k}] :
        h \in Headers, v \in 0..MaxVersion, k \in FieldNames}

\* documents with any spectrum or location, fit for the version or not
ShapeDocs ==
    {[BaseDoc(h, v, PlainVals) EXCEPT !.spec = sp] :
        h \in Headers, v \in 0..MaxVersion, sp \in FlatSpectra \cup NestedSpectra}
    \cup
    {[BaseDoc(h, VERSION, PlainVals) EXCEPT !.loc = lc, !.locKind = lk] :
        h \in Headers, lc \in Locations, lk \in {"dict", "list"}}
    \cup
    {[BaseDoc(h, v, PlainVals) EXCEPT !.specKind = "list"] :
        h \in Headers, v \in 0..MaxVersion}

\* documents whose envelope or 'Version' is of another type
EnvelopeDocs ==
    {[BaseDoc(h, v, PlainVals) EXCEPT !.top = t, !.len = n, !.second = sc, !.vtype = vt] :
        h \in Headers, v \in {1, VERSION},
        t \in {"invalid", "scalar", "string", "object", "array"}, n \in 0..2,
        sc \in {"object", "array", "scalar"}, vt \in {"int", "str", "null"}}

Docs == SchemaDocs \cup LackingDocs \cup ShapeDocs \cup EnvelopeDocs

\* pickle streams of 0 to 6 records
Bins ==
    [n : 0..6, end : {"eof", "junk", "other"}, header : Headers,
     version : {1}, start : {10}, stop : {20},
     spectrum : {<<>>, <<<<2, Num(-2)>>, <<1, Num(-1)>>>>}]

Files == {AbsentFile} \cup {TextFile(d) : d \in Docs} \cup {BinFile(b) : b \in Bins}

\* sessions with every field set: a spectrum of one or two sweeps, a track
SessSweep(t) ==
    IF t = 1 THEN <<<<2, Num(-2)>>, <<1, Num(-1)>>>> ELSE <<<<t, Num(0 - t)>>>>
SweepAt(key) == SessSweep(key[1])
NumberKeys(mm) == [i \in DOMAIN mm |-> <<mm[i][1][1], mm[i][2]>>]
SessSpectra ==
    {NumberKeys(mm) : mm \in MapsOver({ReprKey(n) : n \in 1..MaxKey}, [k \in {ReprKey(n) : n \in 1..MaxKey} |-> SweepAt(k)])} \ {<<>>}
SessTracks ==
    {NumberKeys(mm) : mm \in MapsOver({ReprKey(n) : n \in 1..MaxKey}, [k \in {ReprKey(n) : n \in 1..MaxKey} |-> TripleOf(k)])}
SessInfos ==
    {[start |-> FieldVal("Start", s), stop |-> FieldVal("Stop", s),
      dwell |-> FieldVal("Dwell", s), nfft |-> FieldVal("Nfft", s),
      name |-> FieldVal("Device", s), gain |-> FieldVal("Gain", s),
      lo |-> FieldVal("LO", s), calibration |-> FieldVal("Calibration", s),
      tuner |-> FieldVal("Tuner", s), time |-> FieldVal("Time", s),
      lat |-> FieldVal("Latitude", s), lon |-> FieldVal("Longitude", s),
      desc |-> FieldVal("Description", s)] : s \in 0..MaxSalt}
Sessions ==
    [set : {TRUE}, info : SessInfos, spectrum : SessSpectra, location : SessTracks]

\* the manager is not part of this specification
BackupsIdle ==
    /\ pcMgr = "new"
    /\ tempFile = 0
    /\ disk = <<>>
    /\ tempFd = FALSE
    /\ thread = 0
    /\ backups = <<>>
    /\ workers = <<>>
    /\ callers = [c \in Callers |-> Idle]
    /\ nSaves = 0
    /\ lastGet = NoGet
    /\ ret = NoCall
    /\ peers = <<>>

InitCodec ==
    /\ BackupsIdle
    /\ plotFile \in Files
    /\ plotSess = NoSess
    /\ plotRes = Unread

\* scanInfo, spectrum, location = open_plot(dirname, filename)
OpenPlot ==
    /\ plotRes' = open_plot(plotFile)
    /\ UNCHANGED <<plotFile, plotSess>>
    /\ UNCHANGED backupVars

\* save_plot(filename, scanInfo, spectrum, location); the file has not been
\* read since
SavePlot ==
    /\ \E sess \in Sessions :
         /\ plotFile' = save_plot(sess)
         /\ plotSess' = sess
    /\ plotRes' = Unread
    /\ UNCHANGED backupVars

NextCodec == OpenPlot \/ SavePlot

SpecCodec == InitCodec /\ [][NextCodec]_vars

----------------------------------------------------------------------------
(* Claims about the save path, checked under Spec *)

\* the worker holds the write handle of line 241
Writing(w) == workers[w].pc \in {"opened", "dumped"}
\* the worker has opened the scratch file for writing at some time
HasWritten(w) == workers[w].pc \in {"opened", "dumped", "closed", "done", "failedDump"}
\* the worker's thread was started
WasStarted(w) == workers[w].pc # "created"
\* the worker has left __save
HasEnded(w) == workers[w].pc = "done"
\* the worker's thread was ended by an exception of line 241 or line 242
HasFailed(w) == workers[w].pc \in {"failedOpen", "failedDump"}

\* C1: at no time do two save workers hold the scratch file open for
\* writing; the check of self.thread and its assignment act as one step.
C1_MutualExclusion ==
    Cardinality({w \in DOMAIN workers : Writing(w)}) <= 1

\* C2: as long as the first worker has not finished, the save() calls made
\* so far have caused one write at most: every call after the accepted one
\* was dropped and started nothing.
C2_OneWritePerBurst ==
    (\A w \in DOMAIN workers : workers[w].pc \notin {"closed", "done"})
        => Cardinality({w \in DOMAIN workers : HasWritten(w)}) <= 1

\* C7: once close() has returned the scratch file is not on disk, whatever
\* save() calls and save workers were in flight.
C7_AbsentAfterClose ==
    pcMgr = "closed" => tempFile \notin DOMAIN disk

\* C9: when every worker that was started has ended and no save() call is
\* under way, the scratch file unpickles to the snapshot of an accepted
\* save() call: it is not empty, truncated or mixed.
C9_BurstDecodable ==
    ( /\ pcMgr = "running"
      /\ \E w \in DOMAIN workers : WasStarted(w)
      /\ \A w \in DOMAIN workers : WasStarted(w) => HasEnded(w)
      /\ \A c \in Callers : callers[c].pc = "idle" )
        => \E w \in DOMAIN workers :
              /\ HasEnded(w)
              /\ PickleLoad(disk[tempFile]) = [exc |-> "none", data |-> workers[w].data]

----------------------------------------------------------------------------
(* Claims about the catalog, checked under SpecCatalog *)

\* a step in which __get runs: the constructor, or a delete that returns
BuildStep == BackupsInit \/ \E i \in 0..MaxFiles : Delete(i)

\* every entry of catalog cat names a non-empty file on disk d that is not
\* the manager's own scratch file
CatalogClean(cat, own, d) ==
    \A k \in DOMAIN cat :
        /\ cat[k].name # own
        /\ cat[k].size > 0
        /\ cat[k].name \in DOMAIN d => Len(d[cat[k].name]) > 0

\* C8 as stated: the catalog never lists the manager's own scratch file nor
\* a zero-byte file, and every zero-byte scratch file of another process
\* that is on disk when __get runs is off the disk when __get has returned.
C8_AllEmptyRemoved ==
    [][ /\ CatalogClean(backups', tempFile', disk')
        /\ BuildStep =>
             \A f \in DOMAIN disk :
                 (f # tempFile' /\ Len(disk[f]) = 0) => f \notin DOMAIN disk' ]_vars

\* C8 as amended: the catalog never lists the manager's own scratch file nor
\* a zero-byte file, and every zero-byte scratch file of another process
\* that is on disk when __get runs is left out of the catalog and is off the
\* disk when __get has returned unless its os.remove raised OSError, which
\* __get ignores: then the file stays on disk, still unlisted.
C8_CatalogHygiene ==
    [][ /\ CatalogClean(backups', tempFile', disk')
        /\ BuildStep =>
             \A f \in DOMAIN disk :
                 (f # tempFile' /\ Len(disk[f]) = 0) =>
                     /\ \A k \in DOMAIN backups' : backups'[k].name # f
                     /\ f \in DOMAIN disk' <=> f \in lastGet'.failed ]_vars

\* a build found two zero-byte files, removed one and failed on the other,
\* and lists a file
C8_Witness ==
    /\ pcMgr = "running"
    /\ Len(backups) > 0
    /\ lastGet.failed # {}
    /\ lastGet.zero \ lastGet.failed # {}
    /\ \A f \in lastGet.zero \ lastGet.failed : f \notin DOMAIN disk

\* C10: a delete(index) that returns has removed the file of entry index and
\* left a rebuilt catalog without that entry; self.tempFile, the manager's
\* own scratch file, self.thread and the save workers are as before, and
\* every other non-empty scratch file is still on disk, unchanged, and listed.
C10_DeleteFrame ==
    [][ \A i \in 0..MaxFiles :
          Delete(i) =>
            LET b == backups[i + 1].name
            IN  /\ b \notin DOMAIN disk'
                /\ \A k \in DOMAIN backups' : backups'[k].name # b
                /\ tempFile' = tempFile /\ tempFd' = tempFd
                /\ thread' = thread /\ workers' = workers /\ callers' = callers
                /\ (tempFile \in DOMAIN disk) =>
                      (tempFile \in DOMAIN disk' /\ disk'[tempFile] = disk[tempFile])
                /\ \A f \in (DOMAIN disk) \ {b, tempFile} :
                      Len(disk[f]) > 0 =>
                         /\ f \in DOMAIN disk' /\ disk'[f] = disk[f]
                         /\ \E k \in DOMAIN backups' :
                               backups'[k] = [name |-> f, size |-> Len(disk[f])]
                /\ \A k \in DOMAIN backups' :
                      backups'[k].name \in (DOMAIN disk) \ {b, tempFile} ]_vars

\* a delete returned while a save worker held the scratch file open, and a
\* non-empty file of another run is still listed
C10_Witness ==
    /\ ret.op = "delete" /\ ret.exc = "none"
    /\ thread # 0
    /\ \E w \in DOMAIN workers : Writing(w)
    /\ Len(backups) > 0
    /\ lastGet.zero # {}


----------------------------------------------------------------------------
(* Claims about the codec, checked under SpecCodec.  plotRes is the result *)
(* of open_plot on plotFile whenever plotRes.out is not "unset".           *)

\* C3: open_plot on an existing file ends in one of two ways: it returns a
\* session or it returns the Corrupt result; no exception leaves it.
C3_AllOrNothing ==
    (plotFile.fmt # "absent" /\ plotRes.out # "unset")
        => plotRes.out \in {"ok", "corrupt"}

\* C4: on either decode path, a decoded header marker other than
\* File.HEADER makes open_plot return the Corrupt result.
C4_HeaderCheck ==
    (plotRes.out \notin {"unset", "notfound"} /\ plotRes.header # HEADER)
        => plotRes.out = "corrupt"

\* a JSON document [HEADER, fields] of version 1..8 that has the fields of
\* its version, with a spectrum of the shape of that version
LegacyDoc(file) ==
    LET doc == file.doc
    IN  /\ file.fmt = "text"
        /\ doc.top = "array" /\ doc.len = 2 /\ doc.second = "object"
        /\ doc.header = HEADER
        /\ doc.vtype = "int" /\ doc.version \in 1..8
        /\ KeysAt(doc.version) \subseteq doc.keys
        /\ doc.specKind = "dict"
        /\ \A i \in DOMAIN doc.spec :
              /\ Parses(doc.spec[i][1])
              /\ doc.spec[i][2].isObj <=> ~(doc.version < 7)
              /\ \A j \in DOMAIN doc.spec[i][2].obj : Parses(doc.spec[i][2].obj[j][1])

\* the items of a JSON object that count when its keys are read as numbers:
\* of the items whose keys read as the same number, the last one
LastOfKey(items) ==
    {i \in DOMAIN items :
        \A j \in DOMAIN items :
            ParseFloat(items[j][1]) = ParseFloat(items[i][1]) => j <= i}

\* a flat JSON object as a mapping from numbers to its values
ParsedFlat(items) ==
    {<<ParseFloat(items[i][1]), items[i][2]>> : i \in LastOfKey(items)}

\* a JSON object of JSON objects of numbers as a mapping of mappings
ParsedNested(items) ==
    {<<ParseFloat(items[i][1]),
       {<<ParseFloat(kv[1]), Num(kv[2])>> :
           kv \in {items[i][2].obj[j] : j \in LastOfKey(items[i][2].obj)}}>> :
        i \in LastOfKey(items)}

\* C5: a document of version v in 1..8 with the fields of version v decodes
\* to a session that has dwell 0.131 and nfft 1024 if v <= 1, no device,
\* gain, LO and calibration if v <= 2, tuner 0 if v <= 4, no time, latitude
\* and longitude if v <= 5, description '' if v <= 7 and an empty location;
\* above its gate a field has the document's value; for v < 7 the flat
\* mapping is the one sweep under timestamp 1, from 7 on the nested mapping
\* is kept, keys read as numbers.
C5_Migration ==
    (plotRes.out # "unset" /\ LegacyDoc(plotFile)) =>
        LET doc == plotFile.doc
            v == doc.version
            pick(gated, k, default) == IF gated THEN default ELSE doc.vals[k]
        IN  /\ plotRes.out = "ok"
            /\ plotRes.info.start = doc.vals["Start"]
            /\ plotRes.info.stop = doc.vals["Stop"]
            /\ plotRes.info.dwell = pick(v <= 1, "Dwell", DefaultDwell)
            /\ plotRes.info.nfft = pick(v <= 1, "Nfft", DefaultNfft)
            /\ plotRes.info.name = pick(v <= 2, "Device", PyNone)
            /\ plotRes.info.gain = pick(v <= 2, "Gain", PyNone)
            /\ plotRes.info.lo = pick(v <= 2, "LO", PyNone)
            /\ plotRes.info.calibration = pick(v <= 2, "Calibration", PyNone)
            /\ plotRes.info.tuner = pick(v <= 4, "Tuner", DefaultTuner)
            /\ plotRes.info.time = pick(v <= 5, "Time", PyNone)
            /\ plotRes.info.lat = pick(v <= 5, "Latitude", PyNone)
            /\ plotRes.info.lon = pick(v <= 5, "Longitude", PyNone)
            /\ plotRes.info.desc = pick(v <= 7, "Description", EmptyDesc)
            /\ plotRes.location = <<>>
            /\ NestedItems(plotRes.spectrum) =
                  IF v < 7 THEN {<<1, ParsedFlat(doc.spec)>>}
                  ELSE ParsedNested(doc.spec)

\* a version 6 document that holds the fields of later versions too was
\* decoded: its two frequencies are one sweep, Description is not read
C5_Witness ==
    /\ LegacyDoc(plotFile)
    /\ plotFile.doc.version = 6
    /\ plotFile.doc.keys = FieldNames
    /\ Len(plotFile.doc.spec) = 2
    /\ plotRes.out = "ok"
    /\ Len(plotRes.spectrum) = 1 /\ Len(plotRes.spectrum[1][2]) = 2
    /\ plotRes.info.lon = plotFile.doc.vals["Longitude"]
    /\ plotRes.info.desc = EmptyDesc

\* C6: open_plot of the file save_plot wrote for a session with every field
\* set returns that session: the same thirteen fields, the same spectrum
\* (timestamp -> frequency -> power) and the same location track.
C6_RoundTrip ==
    (plotSess.set /\ plotRes.out # "unset") =>
        /\ plotRes.out = "ok"
        /\ plotRes.info = plotSess.info
        /\ NestedItems(plotRes.spectrum) = NestedItems(plotSess.spectrum)
        /\ Items(plotRes.location) = Items(plotSess.location)

\* a session of two sweeps and a track of two points was written and read
C6_Witness ==
    /\ plotSess.set
    /\ plotRes.out = "ok"
    /\ Len(plotSess.spectrum) = 2
    /\ Len(plotSess.location) = 2
    /\ Len(plotRes.spectrum) = 2

\* C11: open_plot on a path that does not exist returns the NotFound result:
\* no file was opened, neither decode path was entered, no corruption was
\* reported and no session was built.
C11_MissingFile ==
    (plotFile.fmt = "absent" /\ plotRes.out # "unset") =>
        /\ plotRes.out = "notfound"
        /\ plotRes.exc = "none"
        /\ plotRes.handle = "none"
        /\ plotRes.path = "none"
        /\ plotRes.info = NoInfo
        /\ plotRes.spectrum = <<>> /\ plotRes.location = <<>>

\* open_plot has returned for a path that does not exist
C11_Witness ==
    /\ plotFile.fmt = "absent"
    /\ plotRes.out = "notfound"
    /\ plotRes.handle = "none"

----------------------------------------------------------------------------
(* Claims about failing save workers, checked under Spec *)

\* C12: when every save worker that was started has come to its end, by
\* returning or by a failed write, and no save() call is under way, the
\* manager records no active worker, so that the next save() is accepted.
C12_SlotFreed ==
    ( /\ pcMgr = "running"
      /\ \A c \in Callers : callers[c].pc = "idle"
      /\ \E w \in DOMAIN workers : WasStarted(w)
      /\ \A w \in DOMAIN workers : WasStarted(w) => (HasEnded(w) \/ HasFailed(w)) )
        => thread = 0

----------------------------------------------------------------------------
(* Claims about the format probe and the file handle, checked under        *)
(* SpecCodec                                                               *)

\* C13: when the sequential read of the legacy layout fails at any of its
\* five records, because the stream ends or because what follows is no
\* pickle, open_plot goes on to the JSON decode of the same file; it gives
\* no verdict and fails in no other way before the JSON path was entered.
C13_ProbeFallthrough ==
    ( /\ plotRes.out # "unset"
      /\ plotFile.fmt = "pickle"
      /\ plotFile.bin.n < 5
      /\ plotFile.bin.end \in {"eof", "junk"} )
        => plotRes.path = "pickle+json"

\* C14: when open_plot has ended, by a return or by an exception, the file
\* handle it opened at line 307 is closed.
C14_HandleScoped ==
    plotRes.out # "unset" => plotRes.handle \in {"none", "closed"}

----------------------------------------------------------------------------
(* SpecShared: the manager of this process and the managers of other       *)
(* processes on one backup root.  Another process runs the same Backups    *)
(* code; of it the model keeps its scratch file and whether it is          *)
(* "running", "closed" (close() returned) or "closeRaised" (os.remove of   *)
(* line 271 raised FileNotFoundError).                                     *)

\* other processes on the backup root
MaxPeers == 2

PeerSet(n, state) ==
    [m \in (DOMAIN peers) \cup {n} |-> IF m = n THEN state ELSE peers[m]]

\* the save workers of this process on disk d: their handles write to an
\* unlinked file once self.tempFile has been removed
DetachIfGone(d) ==
    IF tempFile \in DOMAIN d THEN workers
    ELSE [w \in DOMAIN workers |-> [workers[w] EXCEPT !.att = FALSE]]

\* Backups.__init__ in another process: mkstemp makes its scratch file n,
\* __get sweeps the zero-byte files of the others
PeerStart(n) ==
    /\ n \in Names \ ((DOMAIN disk) \cup (DOMAIN peers) \cup {tempFile})
    /\ Cardinality(DOMAIN peers) < MaxPeers
    /\ LET made == TruncFile(disk, n)
       IN  \E fail \in SUBSET ZeroByteOthers(made, n) :
             LET g == Get(made, n, fail)
             IN  /\ disk' = g.disk
                 /\ workers' = DetachIfGone(g.disk)
    /\ peers' = PeerSet(n, "running")
    /\ UNCHANGED <<pcMgr, tempFile, tempFd, thread, backups, callers, nSaves,
                   lastGet, ret>>
    /\ UNCHANGED codecVars

\* a save of another process, from open(..., 'wb') to handle.close()
PeerSave(n) ==
    /\ n \in DOMAIN peers
    /\ peers[n] = "running"
    /\ disk' = [m \in (DOMAIN disk) \cup {n} |->
                   IF m = n THEN Pickled(0) ELSE disk[m]]
    /\ UNCHANGED <<pcMgr, tempFile, tempFd, thread, backups, workers, callers,
                   nSaves, lastGet, ret, peers>>
    /\ UNCHANGED codecVars

\* Backups.close in another process
PeerClose(n) ==
    /\ n \in DOMAIN peers
    /\ peers[n] = "running"
    /\ IF n \in DOMAIN disk
       THEN /\ disk' = RemoveFile(disk, n)
            /\ peers' = PeerSet(n, "closed")
       ELSE /\ disk' = disk
            /\ peers' = PeerSet(n, "closeRaised")
    /\ UNCHANGED <<pcMgr, tempFile, tempFd, thread, backups, workers, callers,
                   nSaves, lastGet, ret>>
    /\ UNCHANGED codecVars

\* Backups.close when self.tempFile is not on disk: line 270 closes the
\* descriptor, os.remove of line 271 raises FileNotFoundError
CloseRaises ==
    /\ pcMgr = "running"
    /\ tempFile \notin DOMAIN disk
    /\ tempFd' = FALSE
    /\ pcMgr' = "closeRaised"
    /\ UNCHANGED <<disk, tempFile, thread, backups, workers, callers, nSaves,
                   lastGet, ret, peers>>
    /\ UNCHANGED codecVars

InitShared ==
    /\ pcMgr = "new"
    /\ tempFile = 0
    /\ disk = <<>>
    /\ tempFd = FALSE
    /\ thread = 0
    /\ backups = <<>>
    /\ workers = <<>>
    /\ callers = [c \in Callers |-> Idle]
    /\ nSaves = 0
    /\ lastGet = NoGet
    /\ ret = NoCall
    /\ peers = <<>>
    /\ CodecIdle

NextShared ==
    \/ (BackupsInit /\ tempFile' \notin DOMAIN peers)
    \/ (nSaves < MaxSeqSaves /\ SaveCheck(1))
    \/ SaveAssign(1)
    \/ SaveStart(1)
    \/ \E w \in DOMAIN workers : WorkerOpen(w)
    \/ \E w \in DOMAIN workers : WorkerDump(w)
    \/ \E w \in DOMAIN workers : WorkerClose(w)
    \/ \E w \in DOMAIN workers : WorkerReset(w)
    \/ \E i \in 0..MaxFiles : Delete(i)
    \/ Close
    \/ CloseRaises
    \/ \E n \in Names : PeerStart(n)
    \/ \E n \in Names : PeerSave(n)
    \/ \E n \in Names : PeerClose(n)

SpecShared == InitShared /\ [][NextShared]_vars

----------------------------------------------------------------------------
(* Claims about processes sharing the backup root, checked under SpecShared *)

\* the scratch files of the running other processes, but for file except,
\* are still on disk after the step
PeersKept(except) ==
    \A m \in DOMAIN peers :
        (peers[m] = "running" /\ m \in DOMAIN disk /\ m # except)
            => m \in DOMAIN disk'

\* the scratch file of this process, if it is running, is still on disk
\* after the step
OwnKept ==
    (pcMgr = "running" /\ tempFile \in DOMAIN disk) => tempFile \in DOMAIN disk'

\* C15: no build of a catalog, at the construction of a manager or in its
\* delete (but for the entry that delete was asked to remove), takes the
\* scratch file of another running process off the disk, zero bytes long or
\* not; so that the close() of a running process finds its file.
C15_RunningKept ==
    [][ /\ BackupsInit => PeersKept(0)
        /\ \A i \in 0..MaxFiles : Delete(i) => PeersKept(backups[i + 1].name)
        /\ \A n \in Names : PeerStart(n) => (PeersKept(0) /\ OwnKept)
        /\ \A n \in Names : PeerClose(n) => peers'[n] = "closed"
        /\ CloseRaises => FALSE ]_vars

----------------------------------------------------------------------------
(* SpecCrash: a process that saves from one thread, is killed at any       *)
(* moment and is started again on the same backup root.  Of a killed       *)
(* process peers keeps its scratch file, as "crashedSaved" if one of its   *)
(* save workers had returned before the kill and as "crashed" otherwise.   *)

\* the process is killed: its threads and its unflushed buffers are gone,
\* its scratch file stays as it is on disk
Crash ==
    /\ pcMgr = "running"
    /\ peers' = PeerSet(tempFile,
                        IF \E w \in DOMAIN workers : workers[w].pc = "done"
                        THEN "crashedSaved" ELSE "crashed")
    /\ pcMgr' = "new"
    /\ tempFile' = 0
    /\ tempFd' = FALSE
    /\ thread' = 0
    /\ backups' = <<>>
    /\ workers' = <<>>
    /\ callers' = [c \in Callers |-> Idle]
    /\ nSaves' = 0
    /\ lastGet' = NoGet
    /\ ret' = NoCall
    /\ UNCHANGED disk
    /\ UNCHANGED codecVars

NextCrash ==
    \/ (BackupsInit /\ tempFile' \notin DOMAIN peers)
    \/ SaveCheck(1)
    \/ SaveAssign(1)
    \/ SaveStart(1)
    \/ \E w \in DOMAIN workers : WorkerOpen(w)
    \/ \E w \in DOMAIN workers : WorkerDump(w)
    \/ \E w \in DOMAIN workers : WorkerClose(w)
    \/ \E w \in DOMAIN workers : WorkerReset(w)
    \/ Crash

SpecCrash == InitShared /\ [][NextCrash]_vars

----------------------------------------------------------------------------
(* Claims about a killed process, checked under SpecCrash *)

\* C16: the scratch file of a process that was killed after one of its save
\* workers had completed is on disk when the next process runs, it is an
\* entry of that process's catalog, and load of it returns a snapshot.
C16_CrashRecoverable ==
    pcMgr = "running" =>
        \A n \in DOMAIN peers :
            peers[n] = "crashedSaved" =>
                /\ n \in DOMAIN disk
                /\ \E k \in DOMAIN backups : backups[k].name = n
                /\ PickleLoad(disk[n]).exc = "none"

====
